---- MODULE Spec2Model ----
(***************************************************************************)
(* Pre-upload hook configuration (rh/config.py) and hook results           *)
(* (rh/results.py).                                                        *)
(*                                                                         *)
(* A declaration file is modelled by what the structured-text parser holds *)
(* after reading it: a mapping from the section names the parser reports   *)
(* (sections()) to the ordered (key, value) pairs of each section.  Values *)
(* are strings, written as sequences of one-character strings so that      *)
(* shell tokenization and boolean decoding are computed, not assumed.      *)
(* The parser's reserved defaults block is not a section of the parser and *)
(* is not part of the modelled files.                                      *)
(***************************************************************************)
EXTENDS Integers, Sequences, FiniteSets, TLC

VARIABLES
    file,       \* the declaration file of the project directory
    self,       \* the PreSubmitConfig object, once constructed
    raised,     \* the exception construction ended with
    gen,        \* the generators returned by callable_hooks() calls
    yielded,    \* the closures each generator has yielded so far
    ret,        \* the last call observed: its arguments and what it returned
    hres,       \* the hook result object built (rh/results.py)
    run         \* the run of a hook tool (tools/): its arguments and outcome

vars == <<file, self, raised, gen, yielded, ret, hres, run>>

(***************************************************************************)
(* Bounds                                                                  *)
(***************************************************************************)
\* most option lines (key = value) in one declaration file, all sections
MaxOptions == 3
\* largest exit status a hook process is given
MaxReturnCode == 78
MaxFiles == 2
MaxBlank == 2

(***************************************************************************)
(* Generic helpers                                                         *)
(***************************************************************************)
Range(s) == {s[i] : i \in 1..Len(s)}

Min(S) == CHOOSE x \in S : \A y \in S : x <= y

(***************************************************************************)
(* Strings                                                                 *)
(***************************************************************************)
UpperChars == <<"A", "E", "F", "L", "N", "O", "R", "S", "T", "U", "Y">>
LowerChars == <<"a", "e", "f", "l", "n", "o", "r", "s", "t", "u", "y">>

\* str.lower() on one character
LowerChar(c) ==
    IF \E i \in 1..Len(UpperChars) : UpperChars[i] = c
    THEN LowerChars[CHOOSE i \in 1..Len(UpperChars) : UpperChars[i] = c]
    ELSE c

Lower(s) == [i \in 1..Len(s) |-> LowerChar(s[i])]

\* exception-or-value results of the modelled calls
Ok(v) == [exc |-> "none", val |-> v]
Exc(t) == [exc |-> t, val |-> <<>>]

(***************************************************************************)
(* shlex.split: POSIX shell tokenization of a string over letters, blanks  *)
(* and single quotes.  st is the scanner state: the tokens so far, the     *)
(* token being read (tok, valid when intok) and whether a quote is open.   *)
(***************************************************************************)
ShlexStep(st, c) ==
    IF st.quoted
    THEN IF c = "'" THEN [st EXCEPT !.quoted = FALSE]
         ELSE [st EXCEPT !.tok = Append(@, c)]
    ELSE IF c = "'" THEN [st EXCEPT !.quoted = TRUE, !.intok = TRUE]
    ELSE IF c = " "
         THEN IF st.intok
              THEN [tokens |-> Append(st.tokens, st.tok), tok |-> <<>>,
                    intok |-> FALSE, quoted |-> FALSE]
              ELSE st
    ELSE [st EXCEPT !.tok = Append(@, c), !.intok = TRUE]

RECURSIVE ShlexScan(_, _)
ShlexScan(st, s) ==
    IF s = <<>> THEN st ELSE ShlexScan(ShlexStep(st, Head(s)), Tail(s))

\* shlex.split(s): the argument vector, or ValueError (no closing quotation)
shlex_split(s) ==
    LET st == ShlexScan([tokens |-> <<>>, tok |-> <<>>, intok |-> FALSE,
                         quoted |-> FALSE], s)
    IN IF st.quoted THEN Exc("ValueError")
       ELSE Ok(IF st.intok THEN Append(st.tokens, st.tok) ELSE st.tokens)

(***************************************************************************)
(* rh.shell.boolean_shell_value and rh.hooks.BUILTIN_HOOKS                 *)
(***************************************************************************)
TrueValues == {<<"t", "r", "u", "e">>, <<"y", "e", "s">>, <<"1">>}
FalseValues == {<<"f", "a", "l", "s", "e">>, <<"n", "o">>, <<"0">>}

\* the recognized true forms decode to TRUE, the false forms to FALSE, any
\* other string is an error of the shell layer
boolean_shell_value(sval) ==
    IF Lower(sval) \in TrueValues THEN Ok(TRUE)
    ELSE IF Lower(sval) \in FalseValues THEN Ok(FALSE)
    ELSE Exc("ValueError")

\* the registry: builtin hook name -> implementation
BUILTIN_HOOKS ==
    [h \in {"foo", "bar", "baz"} |->
        IF h = "foo" THEN "check_foo" ELSE IF h = "bar" THEN "check_bar" ELSE "check_baz"]

(***************************************************************************)
(* RawConfigParser: the store and its defaulting lookups                   *)
(***************************************************************************)
\* a store maps each section name to a sequence of [k, v] records
sections(config) == DOMAIN config

has_section(config, section) == section \in DOMAIN config

Keys(its) == [i \in 1..Len(its) |-> its[i].k]

\* the parser's own lookups, which raise on absence
ParserOptions(config, section) ==
    IF section \in DOMAIN config THEN Ok(Keys(config[section]))
    ELSE Exc("NoSectionError")

ParserItems(config, section) ==
    IF section \in DOMAIN config THEN Ok(config[section])
    ELSE Exc("NoSectionError")

ParserGet(config, section, option) ==
    IF section \notin DOMAIN config THEN Exc("NoSectionError")
    ELSE LET its == config[section]
             idx == {i \in 1..Len(its) : its[i].k = option}
         IN IF idx = {} THEN Exc("NoOptionError")
            ELSE Ok(its[CHOOSE i \in idx : TRUE].v)

\* mutant: any number of default arguments is let through
check_args_any_count(cnt_min, cnt_max, args) == Ok(Len(args))

\* _check_args: args holds the default arguments of the call
check_args(cnt_min, cnt_max, args) ==
    IF Len(args) \notin {0, cnt_max - cnt_min} THEN Exc("TypeError")
    ELSE Ok(Len(args))

WithDefault(cnt, r, args, caught) ==
    IF cnt.exc # "none" THEN Exc(cnt.exc)
    ELSE IF r.exc \in caught /\ cnt.val = 1 THEN Ok(args[1])
    ELSE r

options(config, section, args) ==
    WithDefault(check_args(2, 3, args), ParserOptions(config, section), args,
                {"NoSectionError"})

\* mutant: a missing key is not covered by the default
get_section_default_only(config, section, option, args) ==
    WithDefault(check_args(3, 4, args), ParserGet(config, section, option), args,
                {"NoSectionError"})

get(config, section, option, args) ==
    WithDefault(check_args(3, 4, args), ParserGet(config, section, option), args,
                {"NoSectionError", "NoOptionError"})

items(config, section, args) ==
    WithDefault(check_args(2, 3, args), ParserItems(config, section), args,
                {"NoSectionError"})

(***************************************************************************)
(* PreSubmitConfig                                                         *)
(***************************************************************************)
FILENAME == "PREUPLOAD.cfg"
CUSTOM_HOOKS_SECTION == "Hook Scripts"
BUILTIN_HOOKS_SECTION == "Builtin Hooks"
BUILTIN_HOOKS_OPTIONS_SECTION == "Builtin Hooks Options"

\* an exception with its message: the format text, the file path the
\* message holds ("" when it holds none), the sections or hooks it names,
\* and the text of the underlying error it quotes
Error(type, text, path, names, detail) ==
    [type |-> type, text |-> text, path |-> path, names |-> names,
     detail |-> detail]

NoError == Error("none", "", "", {}, "")

\* custom_hooks: the keys of the custom hooks section, [] without it
custom_hooks(config) == options(config, CUSTOM_HOOKS_SECTION, << <<>> >>).val

\* mutant: the command looked up without a default
custom_hook_no_default(config, hook) ==
    LET r == get(config, CUSTOM_HOOKS_SECTION, hook, <<>>)
    IN IF r.exc # "none" THEN Exc(r.exc) ELSE shlex_split(r.val)

\* custom_hook(hook): the tokenized command, or ValueError
custom_hook(config, hook) ==
    shlex_split(get(config, CUSTOM_HOOKS_SECTION, hook, << <<>> >>).val)

\* mutant: every key with a non-empty flag counts as enabled
builtin_hooks_truthy(config) ==
    LET its == items(config, BUILTIN_HOOKS_SECTION, << <<>> >>).val
    IN Ok(Keys(SelectSeq(its, LAMBDA it : it.v # <<>>)))

\* builtin_hooks: the keys whose value decodes to true; decoding an
\* undecodable value raises out of the comprehension
builtin_hooks(config) ==
    LET its == items(config, BUILTIN_HOOKS_SECTION, << <<>> >>).val
    IN IF \E i \in 1..Len(its) : boolean_shell_value(its[i].v).exc # "none"
       THEN Exc("ValueError")
       ELSE Ok(Keys(SelectSeq(its, LAMBDA it : boolean_shell_value(it.v).val)))

\* mutant: the options looked up in the builtin hooks section
builtin_hook_option_wrong_section(config, hook) ==
    shlex_split(get(config, BUILTIN_HOOKS_SECTION, hook, << <<>> >>).val)

\* builtin_hook_option(hook): the tokenized options, or ValueError
builtin_hook_option(config, hook) ==
    shlex_split(get(config, BUILTIN_HOOKS_OPTIONS_SECTION, hook, << <<>> >>).val)

\* mutant: section names compared without regard to case
valid_sections_any_case ==
    {CUSTOM_HOOKS_SECTION, BUILTIN_HOOKS_SECTION, BUILTIN_HOOKS_OPTIONS_SECTION,
     "hook scripts", "builtin hooks", "builtin hooks options"}

valid_sections ==
    {CUSTOM_HOOKS_SECTION, BUILTIN_HOOKS_SECTION, BUILTIN_HOOKS_OPTIONS_SECTION}

valid_builtin_hooks == DOMAIN BUILTIN_HOOKS

\* the six checks of _validate, each the error it raises or NoError

\* reject unknown sections
CheckSections(path, config) ==
    LET bad_sections == sections(config) \ valid_sections
    IN IF bad_sections # {}
       THEN Error("ValidationError", "%s: unknown sections: %s", path,
                  bad_sections, "")
       ELSE NoError

\* reject blank custom hooks
CheckBlank(path, config) ==
    LET hooks == custom_hooks(config)
        bad == {i \in 1..Len(hooks) :
                  get(config, CUSTOM_HOOKS_SECTION, hooks[i], <<>>).val = <<>>}
    IN IF bad # {}
       THEN Error("ValidationError", "%s: custom hook \"%s\" cannot be blank",
                  path, {hooks[Min(bad)]}, "")
       ELSE NoError

\* mutant: options without builtin hook settings are let through
CheckBuiltin_no_orphan(path, config) ==
    IF has_section(config, BUILTIN_HOOKS_SECTION)
    THEN LET hooks == Range(options(config, BUILTIN_HOOKS_SECTION, <<>>).val)
             bad_hooks == hooks \ valid_builtin_hooks
         IN IF bad_hooks # {}
            THEN Error("ValidationError", "%s: unknown builtin hooks: %s",
                       path, bad_hooks, "")
            ELSE NoError
    ELSE NoError

\* reject unknown builtin hooks, and options without builtin hook settings
CheckBuiltin(path, config) ==
    IF has_section(config, BUILTIN_HOOKS_SECTION)
    THEN LET hooks == Range(options(config, BUILTIN_HOOKS_SECTION, <<>>).val)
             bad_hooks == hooks \ valid_builtin_hooks
         IN IF bad_hooks # {}
            THEN Error("ValidationError", "%s: unknown builtin hooks: %s",
                       path, bad_hooks, "")
            ELSE NoError
    ELSE IF has_section(config, BUILTIN_HOOKS_OPTIONS_SECTION)
    THEN Error("ValidationError",
               "Builtin hook options specified, but missing builtin hook settings",
               "", {}, "")
    ELSE NoError

\* mutant: the second block reads the keys of the builtin hooks section
CheckOptions_wrong_section(path, config) ==
    IF has_section(config, BUILTIN_HOOKS_OPTIONS_SECTION)
    THEN LET hooks == Range(options(config, BUILTIN_HOOKS_SECTION, <<>>).val)
             bad_hooks == hooks \ valid_builtin_hooks
         IN IF bad_hooks # {}
            THEN Error("ValidationError", "%s: unknown builtin hook options: %s",
                       path, bad_hooks, "")
            ELSE NoError
    ELSE NoError

\* reject options of unknown builtin hooks
CheckOptions(path, config) ==
    IF has_section(config, BUILTIN_HOOKS_OPTIONS_SECTION)
    THEN LET hooks == Range(options(config, BUILTIN_HOOKS_OPTIONS_SECTION, <<>>).val)
             bad_hooks == hooks \ valid_builtin_hooks
         IN IF bad_hooks # {}
            THEN Error("ValidationError", "%s: unknown builtin hook options: %s",
                       path, bad_hooks, "")
            ELSE NoError
    ELSE NoError

\* mutant: the tokenizer's ValueError is not caught and leaves construction
CheckCustomShell_uncaught(path, config) ==
    LET hooks == custom_hooks(config)
    IN IF \E i \in 1..Len(hooks) : custom_hook(config, hooks[i]).exc = "ValueError"
       THEN Error("ValueError", "No closing quotation", "", {}, "")
       ELSE NoError

\* verify hooks are valid shell strings
CheckCustomShell(path, config) ==
    LET hooks == custom_hooks(config)
        bad == {i \in 1..Len(hooks) : custom_hook(config, hooks[i]).exc = "ValueError"}
    IN IF bad # {}
       THEN Error("ValidationError", "%s: hook \"%s\" command line is invalid: %s",
                  path, {hooks[Min(bad)]}, "No closing quotation")
       ELSE NoError

\* mutant: the options of the enabled hooks are not tokenized
CheckOptionsShell_unchecked(path, config) ==
    LET enabled == builtin_hooks(config)
    IN IF enabled.exc # "none"
       THEN Error(enabled.exc, "Could not decode as a boolean value: %r", "", {}, "")
       ELSE NoError

\* verify hook options are valid shell strings
CheckOptionsShell(path, config) ==
    LET enabled == builtin_hooks(config)
    IN IF enabled.exc # "none"
       THEN Error(enabled.exc, "Could not decode as a boolean value: %r", "", {}, "")
       ELSE LET hooks == enabled.val
                bad == {i \in 1..Len(hooks) :
                          builtin_hook_option(config, hooks[i]).exc = "ValueError"}
            IN IF bad # {}
               THEN Error("ValidationError", "%s: hook options \"%s\" are invalid: %s",
                          path, {hooks[Min(bad)]}, "No closing quotation")
               ELSE NoError

\* mutant: the options section is checked before the builtin hooks section
validate_options_first(path, config) ==
    IF CheckSections(path, config).type # "none" THEN CheckSections(path, config)
    ELSE IF CheckBlank(path, config).type # "none" THEN CheckBlank(path, config)
    ELSE IF CheckOptions(path, config).type # "none" THEN CheckOptions(path, config)
    ELSE IF CheckBuiltin(path, config).type # "none" THEN CheckBuiltin(path, config)
    ELSE IF CheckCustomShell(path, config).type # "none"
         THEN CheckCustomShell(path, config)
    ELSE CheckOptionsShell(path, config)

\* _validate: the checks in source order; the first error raised ends it
validate(path, config) ==
    IF CheckSections(path, config).type # "none" THEN CheckSections(path, config)
    ELSE IF CheckBlank(path, config).type # "none" THEN CheckBlank(path, config)
    ELSE IF CheckBuiltin(path, config).type # "none" THEN CheckBuiltin(path, config)
    ELSE IF CheckOptions(path, config).type # "none" THEN CheckOptions(path, config)
    ELSE IF CheckCustomShell(path, config).type # "none"
         THEN CheckCustomShell(path, config)
    ELSE CheckOptionsShell(path, config)

(***************************************************************************)
(* Declaration files                                                       *)
(***************************************************************************)
\* the option values of the modelled files: blank, e 'a b' c, and a value
\* with an unclosed quote
OptionValues == {<<>>, <<"e", " ", "'", "a", " ", "b", "'", " ", "c">>, <<"'", "a">>}

\* the command lines of the modelled files: the same, and the command l
CommandValues == OptionValues \cup {<<"l">>}

\* the enable flags of the modelled files: true, No, maybe
FlagValues == {<<"t", "r", "u", "e">>, <<"N", "o">>, <<"m", "a", "y", "b", "e">>}

CustomNames == {"mycheck", "other"}
BuiltinNames == {"foo", "bar", "baz", "zap"}
UnknownSections == {"Other", "hook scripts"}

\* the contents a section can have with at most n option lines: no two
\* lines with the same key (the parser keeps one value per key)
SectionContents(names, values, n) ==
    UNION {{its \in [1..m -> [k : names, v : values]] :
              \A i, j \in 1..m : its[i].k = its[j].k => i = j} : m \in 0..n}

\* a section of the file: absent, or present with its contents
SectionChoices(names, values, n) ==
    {[present |-> FALSE, its |-> <<>>]}
        \cup {[present |-> TRUE, its |-> its] : its \in SectionContents(names, values, n)}

\* the store the parser holds after reading a file with these sections
Store(unknown, custom, builtin, opts) ==
    LET present == unknown
            \cup (IF custom.present THEN {CUSTOM_HOOKS_SECTION} ELSE {})
            \cup (IF builtin.present THEN {BUILTIN_HOOKS_SECTION} ELSE {})
            \cup (IF opts.present THEN {BUILTIN_HOOKS_OPTIONS_SECTION} ELSE {})
    IN [sec \in present |->
          IF sec = CUSTOM_HOOKS_SECTION THEN custom.its
          ELSE IF sec = BUILTIN_HOOKS_SECTION THEN builtin.its
          ELSE IF sec = BUILTIN_HOOKS_OPTIONS_SECTION THEN opts.its
          ELSE <<>>]

EmptyStore == [sec \in {} |-> <<>>]

\* the files a project directory can hold: none, one the parser rejects,
\* or one it reads into a store
IsFile(f) ==
    \/ f = [kind |-> "missing", store |-> EmptyStore]
    \/ f = [kind |-> "malformed", store |-> EmptyStore]
    \/ \E unknown \in {u \in SUBSET UnknownSections : Cardinality(u) <= 1},
          custom \in SectionChoices(CustomNames, CommandValues, MaxOptions) :
          \E builtin \in SectionChoices(BuiltinNames, FlagValues,
                                        MaxOptions - Len(custom.its)) :
             \E opts \in SectionChoices(BuiltinNames, OptionValues,
                            MaxOptions - Len(custom.its) - Len(builtin.its)) :
                f = [kind |-> "parsed", store |-> Store(unknown, custom, builtin, opts)]

(***************************************************************************)
(* Objects                                                                 *)
(***************************************************************************)
NoObject == [exists |-> FALSE, path |-> "", config |-> EmptyStore]
NoGenerator == [state |-> "none", n |-> 0]
NoCall == [call |-> "none", arg |-> <<>>, exc |-> "none", val |-> <<>>]
NoRun == [tool |-> "none", args |-> <<>>, status |-> <<>>, exc |-> "none",
          out |-> <<>>]
NoResult == [cls |-> "none", error |-> "", fixup_cmd |-> <<>>,
             result |-> [returncode |-> <<>>, stdout |-> "", stderr |-> ""]]

\* mutant: the object is returned without _validate having run
init_unvalidated(f) ==
    IF f.kind = "malformed"
    THEN [self |-> NoObject,
          raised |-> Error("ValidationError", "%s: %s", FILENAME, {},
                           "File contains parsing errors")]
    ELSE [self |-> [exists |-> TRUE, path |-> FILENAME,
                    config |-> IF f.kind = "missing" THEN EmptyStore ELSE f.store],
          raised |-> NoError]

\* mutant: a missing file is read like any other, and reading it fails
init_missing_raises(f) ==
    IF f.kind # "parsed"
    THEN [self |-> NoObject,
          raised |-> Error("ValidationError", "%s: %s", FILENAME, {},
                           "File cannot be read")]
    ELSE IF validate(FILENAME, f.store).type # "none"
    THEN [self |-> NoObject, raised |-> validate(FILENAME, f.store)]
    ELSE [self |-> [exists |-> TRUE, path |-> FILENAME, config |-> f.store],
          raised |-> NoError]

\* PreSubmitConfig.__init__ on the project's file: the object and the
\* exception it ends with
init(f) ==
    LET path == FILENAME
    IN IF f.kind = "malformed"
       THEN [self |-> NoObject,
             raised |-> Error("ValidationError", "%s: %s", path, {},
                              "File contains parsing errors")]
       ELSE LET config == IF f.kind = "missing" THEN EmptyStore ELSE f.store
                err == validate(path, config)
            IN IF err.type # "none"
               THEN [self |-> NoObject, raised |-> err]
               ELSE [self |-> [exists |-> TRUE, path |-> path, config |-> config],
                     raised |-> NoError]

\* mutant: the builtin hooks are yielded before the custom hooks
resume_builtins_first(config, n) ==
    LET customs == custom_hooks(config)
        builtins == builtin_hooks(config)
    IN IF builtins.exc # "none" THEN Exc(builtins.exc)
       ELSE IF n < Len(builtins.val)
       THEN Ok([func |-> BUILTIN_HOOKS[builtins.val[n + 1]],
                options |-> builtin_hook_option(config, builtins.val[n + 1]).val])
       ELSE IF n - Len(builtins.val) < Len(customs)
       THEN Ok([func |-> "check_custom",
                options |-> custom_hook(config, customs[n - Len(builtins.val) + 1]).val])
       ELSE Exc("StopIteration")

\* the generator of callable_hooks resumed after n yields: the closure it
\* yields, StopIteration, or the exception it ends with
resume(config, n) ==
    LET customs == custom_hooks(config)
    IN IF n < Len(customs)
       THEN LET cmd == custom_hook(config, customs[n + 1])
            IN IF cmd.exc # "none" THEN Exc(cmd.exc)
               ELSE Ok([func |-> "check_custom", options |-> cmd.val])
       ELSE LET builtins == builtin_hooks(config)
                m == n - Len(customs)
            IN IF builtins.exc # "none" THEN Exc(builtins.exc)
               ELSE IF m >= Len(builtins.val) THEN Exc("StopIteration")
               ELSE LET hook == builtins.val[m + 1]
                        opt == builtin_hook_option(config, hook)
                    IN IF hook \notin DOMAIN BUILTIN_HOOKS THEN Exc("KeyError")
                       ELSE IF opt.exc # "none" THEN Exc(opt.exc)
                       ELSE Ok([func |-> BUILTIN_HOOKS[hook], options |-> opt.val])

(***************************************************************************)
(* Hook results                                                            *)
(***************************************************************************)
\* returncode: << >> is None, <<n>> is the exit status n
ReturnCodes == {<<>>} \cup {<<n>> : n \in (-1)..MaxReturnCode}
Outputs == {"", "out", "err"}

\* fixup_cmd: << >> is None, <<argv>> is the command argv
FixupCmds == {<<>>, << <<"fix", "--all">> >>}

NoProcess == [returncode |-> <<>>, stdout |-> "", stderr |-> ""]

\* HookResult.__init__
HookResult(error, fixup_cmd) ==
    [cls |-> "HookResult", error |-> error, fixup_cmd |-> fixup_cmd,
     result |-> NoProcess]

\* mutant: a result with a fixup command counts as a failure
HookResult_bool_fixup(r) == r.error # "" \/ r.fixup_cmd # <<>>

\* HookResult.__bool__
HookResult_bool(r) == r.error # ""

\* HookResult.is_warning
HookResult_is_warning(r) == FALSE

\* mutant: stdout preferred, stderr the fallback
HookCommandResult_prefers_stdout(result, fixup_cmd) ==
    [cls |-> "HookCommandResult",
     error |-> IF result.stdout # "" THEN result.stdout ELSE result.stderr,
     fixup_cmd |-> fixup_cmd,
     result |-> result]

\* HookCommandResult.__init__
HookCommandResult(result, fixup_cmd) ==
    [cls |-> "HookCommandResult",
     error |-> IF result.stderr # "" THEN result.stderr ELSE result.stdout,
     fixup_cmd |-> fixup_cmd,
     result |-> result]

\* mutants of __bool__: the warning status counted as a success, and the
\* override missing so that HookResult.__bool__ answers
HookCommandResult_bool_no77(r) == r.result.returncode \notin {<<>>, <<0>>, <<77>>}

HookCommandResult_bool_inherited(r) == r.error # ""

\* HookCommandResult.__bool__
HookCommandResult_bool(r) == r.result.returncode \notin {<<>>, <<0>>}

\* HookCommandResult.is_warning
HookCommandResult_is_warning(r) == r.result.returncode = <<77>>

(***************************************************************************)
(* tools/control-file-changes.py                                           *)
(***************************************************************************)
\* str.startswith
StartsWith(s, prefix) ==
    Len(prefix) <= Len(s) /\ SubSeq(s, 1, Len(prefix)) = prefix

\* the paths of the modelled runs: a, a/b, ab, b changed; a, a/, b allowed
ChangedPaths == {<<"a">>, <<"a", "/", "b">>, <<"a", "b">>, <<"b">>}
AllowedPaths == {<<"a">>, <<"a", "/">>, <<"b">>}

\* nargs='+': a list of one or more paths
PathLists(paths) == UNION {[1..n -> paths] : n \in 1..MaxFiles}

\* main: the exit status and the files reported
control_main(changed_files, allowed_files) ==
    LET reported_files ==
            SelectSeq(changed_files,
                      LAMBDA f : ~(\E i \in 1..Len(allowed_files) :
                                       StartsWith(f, allowed_files[i])))
    IN IF reported_files # <<>>
       THEN [status |-> <<1>>, out |-> reported_files]
       ELSE [status |-> <<0>>, out |-> <<>>]

(***************************************************************************)
(* tools/sync-inspection-profiles.py                                       *)
(* An element is [tag, attrib, children]; a profile document is its        *)
(* <profile> element: the version attribute, the inspection_tool children  *)
(* (tools) and the inspection_tool children of a <profile version="1.0">   *)
(* nested inside it (nested).                                              *)
(***************************************************************************)
RECURSIVE are_equal(_, _)
are_equal(e1, e2) ==
    IF e1.tag # e2.tag \/ e1.attrib # e2.attrib THEN FALSE
    ELSE IF Len(e1.children) # Len(e2.children) THEN FALSE
    ELSE \A i \in 1..Len(e1.children) : are_equal(e1.children[i], e2.children[i])

Classes == {"A", "B"}

Option ==
    [tag |-> "option", attrib |-> [name |-> "m_ignore", value |-> "true"],
     children |-> <<>>]

InspectionTool(c, enabled, children) ==
    [tag |-> "inspection_tool",
     attrib |-> [class |-> c, enabled |-> enabled, level |-> "WARNING"],
     children |-> children]

InspectionTools ==
    {InspectionTool(c, en, ch) :
        c \in Classes, en \in {"true", "false"}, ch \in {<<>>, <<Option>>}}

\* the inspection lists of a profile: at most one element per class
ToolLists ==
    {<<>>} \cup {<<e>> : e \in InspectionTools}
        \cup {<<e1, e2>> : e1 \in {e \in InspectionTools : e.attrib.class = "A"},
                           e2 \in {e \in InspectionTools : e.attrib.class = "B"}}
        \cup {<<e2, e1>> : e1 \in {e \in InspectionTools : e.attrib.class = "A"},
                           e2 \in {e \in InspectionTools : e.attrib.class = "B"}}

NestedLists ==
    {<<>>, <<InspectionTool("A", "true", <<>>)>>,
     <<InspectionTool("A", "true", <<Option>>)>>}

Document(version, tools, nested) ==
    [parsed |-> TRUE, version |-> version, tools |-> tools, nested |-> nested]

\* content that get_file_content or etree.fromstring fails on
Unparsable == [parsed |-> FALSE, version |-> "", tools |-> <<>>, nested |-> <<>>]

SubsetDocuments ==
    {Unparsable, Document("2.0", <<>>, <<>>)}
        \cup {Document("1.0", t, <<>>) : t \in ToolLists}

SupersetDocuments ==
    {Unparsable, Document("2.0", <<>>, <<>>)}
        \cup {Document("1.0", t, n) : t \in ToolLists, n \in NestedLists}

SyncResult(status, exc, absent, written) ==
    [status |-> status, exc |-> exc,
     out |-> [diffs |-> <<>>, absent |-> absent, written |-> written]]

\* subset_inspections: class -> the last enabled inspection_tool of the class
subset_inspections(doc) ==
    LET on == {i \in 1..Len(doc.tools) : doc.tools[i].attrib.enabled = "true"}
    IN [c \in {doc.tools[i].attrib.class : i \in on} |->
          doc.tools[CHOOSE i \in on :
                       /\ doc.tools[i].attrib.class = c
                       /\ \A j \in on : doc.tools[j].attrib.class = c => j <= i]]

\* main: affected are the profiles among the commit's files.  The loop over
\* the superset looks under profile[@version="1.0"] relative to the profile
\* element itself, so it visits the nested list only; an unequal element it
\* visits is removed from a parent that does not hold it (ValueError), an
\* equal one is left in the dict.
sync_main(affected, subset, superset, fix, repo_path) ==
    IF affected = {} THEN SyncResult(<<0>>, "none", {}, FALSE)
    ELSE IF ~subset.parsed \/ ~superset.parsed
    THEN SyncResult(<<1>>, "none", {}, FALSE)
    ELSE IF subset.version # "1.0" THEN SyncResult(<<1>>, "none", {}, FALSE)
    ELSE IF superset.version # "1.0" THEN SyncResult(<<1>>, "none", {}, FALSE)
    ELSE LET inspections == subset_inspections(subset)
             absent == DOMAIN inspections
         IN IF \E i \in 1..Len(superset.nested) :
                  /\ superset.nested[i].attrib.class \in DOMAIN inspections
                  /\ ~are_equal(inspections[superset.nested[i].attrib.class],
                                superset.nested[i])
            THEN SyncResult(<<>>, "ValueError", {}, FALSE)
            ELSE IF absent # {}
            THEN SyncResult(<<1>>, "none", absent, fix /\ repo_path)
            ELSE SyncResult(<<0>>, "none", {}, FALSE)

(***************************************************************************)
(* tools/pylint.py                                                         *)
(* A path is a sequence of components, each a sequence of characters; its  *)
(* string is the components joined by "/".  Absolute paths are kept as the *)
(* components below the filesystem root.                                   *)
(***************************************************************************)
PARDIR == <<".", ".">>

\* os.path.normpath on the components of an absolute path: done holds the
\* components kept so far
RECURSIVE NormScan(_, _)
NormScan(done, rest) ==
    IF rest = <<>> THEN done
    ELSE IF Head(rest) = PARDIR
    THEN NormScan(IF done = <<>> THEN <<>> ELSE SubSeq(done, 1, Len(done) - 1),
                  Tail(rest))
    ELSE NormScan(Append(done, Head(rest)), Tail(rest))

\* the directory pylint runs in: /r
CurDir == << <<"r">> >>

\* os.path.abspath of a path relative to the current directory
abspath(path) == NormScan(<<>>, CurDir \o path)

\* os.path.dirname of a relative path
dirname(path) == SubSeq(path, 1, Len(path) - 1)

\* the string of an absolute path: "/" for the filesystem root
RECURSIVE JoinAll(_)
JoinAll(path) ==
    IF path = <<>> THEN <<>> ELSE <<"/">> \o Head(path) \o JoinAll(Tail(path))

PathString(path) == IF path = <<>> THEN <<"/">> ELSE JoinAll(path)

\* os.path.abspath(dir) + os.sep: the form of the map's keys
DirKey(dir) == PathString(dir) \o <<"/">>

\* the characters of the modelled paths in code point order
Alphabet == <<".", "/", "a", "b", "r", "t", "w", "x", "y", "z">>

Ord(c) == CHOOSE i \in 1..Len(Alphabet) : Alphabet[i] = c

\* str.__lt__: lexicographic order by code point
RECURSIVE StrLess(_, _)
StrLess(s, t) ==
    IF t = <<>> THEN FALSE
    ELSE IF s = <<>> THEN TRUE
    ELSE IF Head(s) # Head(t) THEN Ord(Head(s)) < Ord(Head(t))
    ELSE StrLess(Tail(s), Tail(t))

\* the files given on the command line, relative to the current directory:
\* t, a/x, a/b/y, ab/z, a/../ab/z and, outside it, ../ra/w
PyFiles ==
    {<< <<"t">> >>, << <<"a">>, <<"x">> >>, << <<"a">>, <<"b">>, <<"y">> >>,
     << <<"a", "b">>, <<"z">> >>, << <<"a">>, PARDIR, <<"a", "b">>, <<"z">> >>,
     << PARDIR, <<"r", "a">>, <<"w">> >>}

\* the directories that can hold a pylintrc: /r, /r/a, /r/a/b, /r/ab
RcCandidates ==
    {<< <<"r">> >>, << <<"r">>, <<"a">> >>, << <<"r">>, <<"a">>, <<"b">> >>,
     << <<"r">>, <<"a", "b">> >>}

\* mutant: the keys are tried in ascending order
first_rc_dir_ascending(pylintrc_map, f) ==
    LET f_full == PathString(abspath(f))
        hits == {k \in DOMAIN pylintrc_map : StartsWith(f_full, k)}
    IN IF hits = {} THEN <<>>
       ELSE CHOOSE k \in hits : \A other \in hits : other = k \/ StrLess(k, other)

\* the first key of sorted(pylintrc_map, reverse=True) that the full path of
\* the file starts with; << >> when the loop finds none
first_rc_dir(pylintrc_map, f) ==
    LET f_full == PathString(abspath(f))
        hits == {k \in DOMAIN pylintrc_map : StartsWith(f_full, k)}
    IN IF hits = {} THEN <<>>
       ELSE CHOOSE k \in hits : \A other \in hits : other = k \/ StrLess(other, k)

(***************************************************************************)
(* tools/check_aosp_license.py                                             *)
(* A text is a sequence of tokens: single characters, and the literal      *)
(* stretches of the header, each taken as one token.                       *)
(***************************************************************************)
NL == "\n"

\* the character class [ #/\*]
CommentChars == {" ", "#", "/", "*"}

\* \d on the digits of the modelled texts
Digits == {"0", "1", "2", "4", "9"}

\* the literal stretches of the header after the first two lines, one per
\* line; << >> is a line that holds comment characters only
HeaderTail ==
    << <<"you may not use this file except in compliance with the License.">>,
       <<"You may obtain a copy of the License at">>,
       <<>>,
       <<"http://www.apache.org/licenses/LICENSE-2.0">>,
       <<>>,
       <<"Unless required by applicable law or agreed to in writing, software">>,
       <<"distributed under the License is distributed on an \"AS IS\" BASIS,">>,
       <<"WITHOUT WARRANTIES OR CONDITIONS OF ANY KIND, either express or implied.">>,
       <<"See the License for the specific language governing permissions and">>,
       <<"limitations under the License.">> >>

Lit(tok) == [type |-> "lit", tok |-> tok]
AnyChar == [type |-> "any", tok |-> ""]
Digit == [type |-> "digit", tok |-> ""]

\* one line of the pattern: [ #/\*]* and the items of the line up to its
\* newline; blank says that [ #/\*]*\n? comes before it
PatternLine(atoms, blank) == [atoms |-> Append(atoms, Lit(NL)), blank |-> blank]

\* AOSP_LICENSE_HEADER line by line: the dot of "Version 2.0" is not
\* escaped and matches any character but a newline
AOSP_LICENSE_HEADER ==
    << PatternLine(<<Lit("Copyright (C) "), Lit("2"), Lit("0"), Digit, Digit,
                     Lit(" The Android Open Source Project")>>, FALSE),
       PatternLine(<<Lit("Licensed under the Apache License, Version 2"), AnyChar,
                     Lit("0 (the \"License\");")>>, TRUE) >>
        \o [k \in 1..Len(HeaderTail) |->
              PatternLine(IF HeaderTail[k] = <<>> THEN <<>>
                          ELSE <<Lit(HeaderTail[k][1])>>, FALSE)]

\* [ #/\*]* at position j: no item that follows it in the pattern starts
\* with a character of the class, so it takes the whole run
AfterRun(j, text) ==
    CHOOSE n \in j..(Len(text) + 1) :
        /\ \A m \in j..(n - 1) : text[m] \in CommentChars
        /\ n <= Len(text) => text[n] \notin CommentChars

ItemMatches(item, c) ==
    IF item.type = "lit" THEN c = item.tok
    ELSE IF item.type = "digit" THEN c \in Digits
    ELSE c # NL

\* the items match the text from position j on
ItemsAt(atoms, j, text) ==
    /\ j + Len(atoms) - 1 <= Len(text)
    /\ \A k \in 1..Len(atoms) : ItemMatches(atoms[k], text[j + k - 1])

\* the position after pattern line i matched at position j, 0 for no match
LineEnd(i, j, text) ==
    LET line == AOSP_LICENSE_HEADER[i]
        first == AfterRun(j, text)
        second == IF line.blank /\ first <= Len(text) /\ text[first] = NL
                  THEN AfterRun(first + 1, text) ELSE first
    IN IF ItemsAt(line.atoms, second, text) THEN second + Len(line.atoms)
       ELSE IF ItemsAt(line.atoms, first, text) THEN first + Len(line.atoms)
       ELSE 0

\* the pattern from line i on matches the text at position j
RECURSIVE MatchAt(_, _, _)
MatchAt(i, j, text) ==
    IF i > Len(AOSP_LICENSE_HEADER) THEN TRUE
    ELSE LineEnd(i, j, text) # 0 /\ MatchAt(i + 1, LineEnd(i, j, text), text)

\* license_re.search(contents) is not None
check_license(contents) == \E j \in 1..(Len(contents) + 1) : MatchAt(1, j, contents)

\* the texts checked: a header written with one comment prefix on every
\* line, a year, blank lines after the copyright line, the character
\* between 2 and 0 of the version, one line left out (0: none), and the
\* last line ended by a newline or not
LinePrefixes == {<<>>, <<"#", " ">>, <<" ", "*", " ">>, <<"/", "/", " ">>}
Years == {<<"2", "0", "2", "4">>, <<"1", "9", "9", "9">>, <<>>}
VersionDots == {".", "x"}

HeaderBodies(year, dot) ==
    << <<"Copyright (C) ">> \o year \o <<" The Android Open Source Project">>,
       <<"Licensed under the Apache License, Version 2", dot,
         "0 (the \"License\");">> >>
        \o HeaderTail

\* the lines written: blank lines go after the first, line drop is left out
WrittenLines(year, dot, blank, drop) ==
    LET bodies == HeaderBodies(year, dot)
        kept == {k \in 1..Len(bodies) : k # drop}
    IN [k \in 1..Len(bodies) |-> IF k \in kept THEN <<bodies[k]>> ELSE <<>>]

RECURSIVE Blanks(_)
Blanks(n) == IF n = 0 THEN <<>> ELSE << <<>> >> \o Blanks(n - 1)

RECURSIVE Concat(_)
Concat(seqs) == IF seqs = <<>> THEN <<>> ELSE Head(seqs) \o Concat(Tail(seqs))

RECURSIVE WriteLines(_, _, _)
WriteLines(lines, prefix, terminated) ==
    IF lines = <<>> THEN <<>>
    ELSE prefix \o Head(lines)
         \o (IF Len(lines) > 1 \/ terminated THEN <<NL>> ELSE <<>>)
         \o WriteLines(Tail(lines), prefix, terminated)

Contents(prefix, year, dot, blank, drop, terminated) ==
    LET w == WrittenLines(year, dot, blank, drop)
        lines == w[1] \o (IF w[1] = <<>> THEN <<>> ELSE Blanks(blank))
                     \o Concat(SubSeq(w, 2, Len(w)))
    IN <<NL>> \o WriteLines(lines, prefix, terminated)

(***************************************************************************)
(* Actions                                                                 *)
(***************************************************************************)
\* the generator objects followed: those of the first two callable_hooks()
\* calls
Generators == {1, 2}

Init ==
    /\ IsFile(file)
    /\ self = NoObject
    /\ raised = NoError
    /\ gen = [g \in Generators |-> NoGenerator]
    /\ yielded = [g \in Generators |-> <<>>]
    /\ ret = NoCall
    /\ hres = NoResult
    /\ run = NoRun

\* PreSubmitConfig(path): one construction per project directory
Construct ==
    /\ ~self.exists
    /\ raised.type = "none"
    /\ self' = init(file).self
    /\ raised' = init(file).raised
    /\ UNCHANGED <<file, gen, yielded, ret, hres, run>>

\* callable_hooks(): a fresh generator object, nothing run yet
CallableHooks ==
    /\ self.exists
    /\ \E g \in Generators :
          /\ gen[g].state = "none"
          /\ \A h \in Generators : h < g => gen[h].state # "none"
          /\ gen' = [gen EXCEPT ![g] = [state |-> "suspended", n |-> 0]]
    /\ UNCHANGED <<file, self, raised, yielded, ret, hres, run>>

\* next() on one of the generators
GenNext ==
    /\ \E g \in Generators :
          /\ gen[g].state = "suspended"
          /\ LET r == resume(self.config, gen[g].n)
             IN IF r.exc = "none"
                THEN /\ gen' = [gen EXCEPT ![g].n = @ + 1]
                     /\ yielded' = [yielded EXCEPT ![g] = Append(@, r.val)]
                ELSE /\ gen' = [gen EXCEPT ![g].state = IF r.exc = "StopIteration"
                                                        THEN "done" ELSE r.exc]
                     /\ yielded' = yielded
    /\ UNCHANGED <<file, self, raised, ret, hres, run>>

\* a hook wraps the completed process of its command
NewHookCommandResult ==
    /\ hres.cls = "none"
    /\ \E rc \in ReturnCodes, out \in Outputs, err \in Outputs, fix \in FixupCmds :
          /\ hres' = HookCommandResult([returncode |-> rc, stdout |-> out,
                                        stderr |-> err], fix)
          /\ ret' = [call |-> "HookCommandResult",
                     arg |-> <<[returncode |-> rc, stdout |-> out, stderr |-> err],
                               fix>>,
                     exc |-> "none", val |-> <<>>]
    /\ UNCHANGED <<file, self, raised, gen, yielded, run>>

\* a hook reports its result as an error string
NewHookResult ==
    /\ hres.cls = "none"
    /\ \E error \in Outputs, fix \in FixupCmds :
          /\ hres' = HookResult(error, fix)
          /\ ret' = [call |-> "HookResult", arg |-> <<error, fix>>,
                     exc |-> "none", val |-> <<>>]
    /\ UNCHANGED <<file, self, raised, gen, yielded, run>>

\* the builtin_hooks property read on the object
BuiltinHooks ==
    /\ self.exists
    /\ ret' = [call |-> "builtin_hooks", arg |-> <<>>,
               exc |-> builtin_hooks(self.config).exc,
               val |-> builtin_hooks(self.config).val]
    /\ UNCHANGED <<file, self, raised, gen, yielded, hres, run>>

\* the custom_hooks property read on the object
CustomHooks ==
    /\ self.exists
    /\ ret' = [call |-> "custom_hooks", arg |-> <<>>, exc |-> "none",
               val |-> custom_hooks(self.config)]
    /\ UNCHANGED <<file, self, raised, gen, yielded, hres, run>>

\* custom_hook(hook) called on the object
CustomHook ==
    /\ self.exists
    /\ \E hook \in CustomNames \cup {"undeclared"} :
          ret' = [call |-> "custom_hook", arg |-> <<hook>>,
                  exc |-> custom_hook(self.config, hook).exc,
                  val |-> custom_hook(self.config, hook).val]
    /\ UNCHANGED <<file, self, raised, gen, yielded, hres, run>>

\* mutant: reading an option takes the options section out of the store
BuiltinHookOption_consuming ==
    /\ self.exists
    /\ \E hook \in BuiltinNames :
          ret' = [call |-> "builtin_hook_option", arg |-> <<hook>>,
                  exc |-> builtin_hook_option(self.config, hook).exc,
                  val |-> builtin_hook_option(self.config, hook).val]
    /\ self' = [self EXCEPT !.config =
                  [sec \in DOMAIN self.config \ {BUILTIN_HOOKS_OPTIONS_SECTION} |->
                      self.config[sec]]]
    /\ UNCHANGED <<file, raised, gen, yielded, hres, run>>

\* builtin_hook_option(hook) called on the object
BuiltinHookOption ==
    /\ self.exists
    /\ \E hook \in BuiltinNames :
          ret' = [call |-> "builtin_hook_option", arg |-> <<hook>>,
                  exc |-> builtin_hook_option(self.config, hook).exc,
                  val |-> builtin_hook_option(self.config, hook).val]
    /\ UNCHANGED <<file, self, raised, gen, yielded, hres, run>>

\* the default arguments of a call of the parser wrapper: none, one, two
DefaultArgs(d) == {<<>>, <<d>>, <<d, d>>}

\* defaults no file stores: a value, a list of keys, a list of items
DefaultValue == <<"d">>
DefaultOptions == <<"dflt">>
DefaultItems == <<[k |-> "dflt", v |-> <<"d">>]>>

\* the sections and keys looked up
LookupSections == {CUSTOM_HOOKS_SECTION, "Other"}

\* config.get(section, option, *args)
StoreGet ==
    /\ \E section \in LookupSections, option \in CustomNames,
          args \in DefaultArgs(DefaultValue) :
          ret' = [call |-> "get", arg |-> <<section, option, args>>,
                  exc |-> get(file.store, section, option, args).exc,
                  val |-> get(file.store, section, option, args).val]
    /\ UNCHANGED <<file, self, raised, gen, yielded, hres, run>>

\* config.options(section, *args)
StoreOptions ==
    /\ \E section \in LookupSections, args \in DefaultArgs(DefaultOptions) :
          ret' = [call |-> "options", arg |-> <<section, "", args>>,
                  exc |-> options(file.store, section, args).exc,
                  val |-> options(file.store, section, args).val]
    /\ UNCHANGED <<file, self, raised, gen, yielded, hres, run>>

\* config.items(section, *args)
StoreItems ==
    /\ \E section \in LookupSections, args \in DefaultArgs(DefaultItems) :
          ret' = [call |-> "items", arg |-> <<section, "", args>>,
                  exc |-> items(file.store, section, args).exc,
                  val |-> items(file.store, section, args).val]
    /\ UNCHANGED <<file, self, raised, gen, yielded, hres, run>>

\* the parser wrapper on its own, after reading a file with a custom hooks
\* section, a section of another name, both or neither
InitStore ==
    /\ Init
    /\ file.kind = "parsed"
    /\ DOMAIN file.store \subseteq {CUSTOM_HOOKS_SECTION} \cup UnknownSections

NextStore == StoreGet \/ StoreOptions \/ StoreItems

SpecStore == InitStore /\ [][NextStore]_vars

\* the hook tools on their own: no tool has run
InitTools ==
    /\ file = [kind |-> "missing", store |-> EmptyStore]
    /\ self = NoObject
    /\ raised = NoError
    /\ gen = [g \in Generators |-> NoGenerator]
    /\ yielded = [g \in Generators |-> <<>>]
    /\ ret = NoCall
    /\ hres = NoResult
    /\ run = NoRun

\* control-file-changes --changed-files ... --allowed-files ...: one run of
\* main per process
ControlFileChanges ==
    /\ run.tool = "none"
    /\ \E changed \in PathLists(ChangedPaths), allowed \in PathLists(AllowedPaths) :
          run' = [tool |-> "control-file-changes", args |-> <<changed, allowed>>,
                  status |-> control_main(changed, allowed).status,
                  exc |-> "none",
                  out |-> control_main(changed, allowed).out]
    /\ UNCHANGED <<file, self, raised, gen, yielded, ret, hres>>

NextControl == ControlFileChanges

SpecControl == InitTools /\ [][NextControl]_vars

\* sync-inspection-profiles on a commit: the profiles among its files, the
\* two profiles at that commit, --fix, and whether REPO_PATH is set
SyncInspectionProfiles ==
    /\ run.tool = "none"
    /\ \E affected \in SUBSET {"subset", "superset"},
          subset \in SubsetDocuments, superset \in SupersetDocuments,
          fix \in BOOLEAN, repo_path \in BOOLEAN :
          LET r == sync_main(affected, subset, superset, fix, repo_path)
          IN run' = [tool |-> "sync-inspection-profiles",
                     args |-> <<affected, subset, superset, fix, repo_path>>,
                     status |-> r.status, exc |-> r.exc, out |-> r.out]
    /\ UNCHANGED <<file, self, raised, gen, yielded, ret, hres>>

NextSync == SyncInspectionProfiles

SpecSync == InitTools /\ [][NextSync]_vars

\* the state of the pylint wrapper inside map_pyfiles_to_pylintrc: the
\* position (pc), the map, the search directories still to visit, and for
\* the find_parent_dirs_with_pylintrc call under way its leaf directory,
\* its key and the map it was called with
PylintState(pc, map, todo, leaf, key, before) ==
    [pc |-> pc, map |-> map, todo |-> todo, leaf |-> leaf, key |-> key,
     before |-> before]

\* map_pyfiles_to_pylintrc(files) up to its first loop: the top directory
\* is made a key and the search directories are collected
PylintStart ==
    /\ run.tool = "none"
    /\ \E files \in PathLists(PyFiles), rcdirs \in SUBSET RcCandidates :
          LET top == [k \in {DirKey(abspath(<<>>))} |-> {}]
          IN run' = [tool |-> "pylint", args |-> <<files, rcdirs>>,
                     status |-> <<>>, exc |-> "none",
                     out |-> PylintState("dirs", top,
                                         {dirname(files[i]) : i \in 1..Len(files)},
                                         <<>>, <<>>, top)]
    /\ UNCHANGED <<file, self, raised, gen, yielded, ret, hres>>

\* find_parent_dirs_with_pylintrc(search_dir, pylintrc_map) is entered for
\* one of the search directories: a leaf outside the current directory
\* exits
FindParentDirs ==
    /\ run.tool = "pylint"
    /\ run.out.pc = "dirs"
    /\ \E leafdir \in run.out.todo :
          LET rootdir == DirKey(abspath(<<>>))
              key == DirKey(abspath(leafdir))
              st == PylintState("walk", run.out.map, run.out.todo \ {leafdir},
                                leafdir, abspath(leafdir), run.out.map)
          IN IF ~StartsWith(key, rootdir)
             THEN run' = [run EXCEPT !.status = <<1>>, !.exc = "SystemExit",
                                     !.out = [st EXCEPT !.pc = "exit"]]
             ELSE run' = [run EXCEPT !.out = st]
    /\ UNCHANGED <<file, self, raised, gen, yielded, ret, hres>>

\* mutant: the loop does not stop at the current directory
Walk_past_root ==
    /\ run.tool = "pylint"
    /\ run.out.pc = "walk"
    /\ LET key == DirKey(run.out.key)
       IN IF key \in DOMAIN run.out.map \ {DirKey(abspath(<<>>))}
          THEN run' = [run EXCEPT !.out.pc = "dirs"]
          ELSE IF run.out.key \in run.args[2] \ {abspath(<<>>)}
          THEN run' = [run EXCEPT !.out.pc = "dirs",
                          !.out.map = [k \in DOMAIN run.out.map \cup {key} |->
                                          IF k \in DOMAIN run.out.map
                                          THEN run.out.map[k] ELSE {}]]
          ELSE run' = [run EXCEPT !.out.key =
                          NormScan(<<>>, Append(run.out.key, PARDIR))]
    /\ UNCHANGED <<file, self, raised, gen, yielded, ret, hres>>

\* one test of the while condition and, when it holds, one pass through
\* the loop body
Walk ==
    /\ run.tool = "pylint"
    /\ run.out.pc = "walk"
    /\ LET rootdir == DirKey(abspath(<<>>))
           key == DirKey(run.out.key)
       IN IF rootdir = key
          THEN run' = [run EXCEPT !.out.pc = "dirs"]
          ELSE IF key \in DOMAIN run.out.map
          THEN run' = [run EXCEPT !.out.pc = "dirs"]
          ELSE IF run.out.key \in run.args[2]
          THEN run' = [run EXCEPT !.out.pc = "dirs",
                          !.out.map = [k \in DOMAIN run.out.map \cup {key} |->
                                          IF k \in DOMAIN run.out.map
                                          THEN run.out.map[k] ELSE {}]]
          ELSE run' = [run EXCEPT !.out.key =
                          NormScan(<<>>, Append(run.out.key, PARDIR))]
    /\ UNCHANGED <<file, self, raised, gen, yielded, ret, hres>>

\* the second loop of map_pyfiles_to_pylintrc: each file goes to the first
\* matching key in reverse sorted order, and the map is returned
MapFiles ==
    /\ run.tool = "pylint"
    /\ run.out.pc = "dirs"
    /\ run.out.todo = {}
    /\ LET files == run.args[1]
           map == run.out.map
       IN IF \E i \in 1..Len(files) : first_rc_dir(map, files[i]) = <<>>
          THEN run' = [run EXCEPT !.status = <<1>>, !.exc = "SystemExit",
                                  !.out.pc = "exit"]
          ELSE run' = [run EXCEPT !.out.pc = "done",
                          !.out.map = [k \in DOMAIN map |->
                                          {files[i] : i \in {j \in 1..Len(files) :
                                              first_rc_dir(map, files[j]) = k}}]]
    /\ UNCHANGED <<file, self, raised, gen, yielded, ret, hres>>

NextPylint == PylintStart \/ FindParentDirs \/ Walk \/ MapFiles

\* the wrapper runs on as a sequential program: no step waits
SpecPylint == InitTools /\ [][NextPylint]_vars /\ WF_vars(NextPylint)

\* check_license(contents) on the content of one file
CheckLicense ==
    /\ run.tool = "none"
    /\ \E prefix \in LinePrefixes, year \in Years, dot \in VersionDots,
          blank \in 0..MaxBlank, drop \in 0..(Len(HeaderTail) + 2),
          terminated \in BOOLEAN :
          LET contents == Contents(prefix, year, dot, blank, drop, terminated)
          IN run' = [tool |-> "check_license", args |-> <<contents>>,
                     status |-> <<>>, exc |-> "none",
                     out |-> check_license(contents)]
    /\ UNCHANGED <<file, self, raised, gen, yielded, ret, hres>>

NextLicense == CheckLicense

SpecLicense == InitTools /\ [][NextLicense]_vars

\* construction, the hook sequence and the two properties
Next ==
    \/ Construct
    \/ CallableHooks
    \/ GenNext
    \/ BuiltinHooks
    \/ CustomHooks

Spec == Init /\ [][Next]_vars

\* construction and the four accessors
NextAccess ==
    \/ Construct
    \/ BuiltinHooks
    \/ CustomHooks
    \/ CustomHook
    \/ BuiltinHookOption

SpecAccess == Init /\ [][NextAccess]_vars

\* hook results on their own
InitResults ==
    /\ file = [kind |-> "missing", store |-> EmptyStore]
    /\ self = NoObject
    /\ raised = NoError
    /\ gen = [g \in Generators |-> NoGenerator]
    /\ yielded = [g \in Generators |-> <<>>]
    /\ ret = NoCall
    /\ hres = NoResult
    /\ run = NoRun

NextResults == NewHookCommandResult \/ NewHookResult

SpecResults == InitResults /\ [][NextResults]_vars

(***************************************************************************)
(* Claims                                                                  *)
(***************************************************************************)
IsCommandResult == hres.cls = "HookCommandResult"

\* C1 as stated: a HookCommandResult built from a process whose exit status
\* is 77 is falsy and its is_warning() is true.
C1_Original ==
    IsCommandResult /\ hres.result.returncode = <<77>>
        => ~HookCommandResult_bool(hres) /\ HookCommandResult_is_warning(hres)

\* C1 amended: a HookCommandResult built from a process whose exit status is
\* 77 is truthy, like every other non-zero status, and its is_warning() is
\* true.
C1_Amended ==
    IsCommandResult /\ hres.result.returncode = <<77>>
        => HookCommandResult_bool(hres) /\ HookCommandResult_is_warning(hres)

C1_Witness ==
    /\ IsCommandResult
    /\ hres.result.returncode = <<77>>
    /\ hres.result.stderr = "err"

\* C2: whatever the captured output, exit status 0 gives a falsy result that
\* is no warning, and every exit status other than 0 and 77 gives a truthy
\* result that is no warning.
C2_ZeroAndFailure ==
    IsCommandResult /\ hres.result.returncode # <<>> =>
        LET status == hres.result.returncode[1]
        IN /\ status = 0 =>
                ~HookCommandResult_bool(hres) /\ ~HookCommandResult_is_warning(hres)
           /\ status \notin {0, 77} =>
                HookCommandResult_bool(hres) /\ ~HookCommandResult_is_warning(hres)

C2_Witness ==
    /\ IsCommandResult
    /\ hres.result.returncode = <<1>>
    /\ hres.result.stdout = ""
    /\ hres.result.stderr = ""
    /\ HookCommandResult_bool(hres)

\* construction has run: it returned the object or it raised
Constructed == self.exists
Failed == raised.type # "none"
Done == Constructed \/ Failed

\* the items of a section of the file, none when the section is absent
FileItems(section) ==
    IF file.kind = "parsed" /\ section \in DOMAIN file.store
    THEN file.store[section] ELSE <<>>

FileHas(section) == file.kind = "parsed" /\ section \in DOMAIN file.store

\* a string with an unclosed quote: its quote characters do not pair up
Unclosed(v) == Cardinality({i \in 1..Len(v) : v[i] = "'"}) % 2 = 1

RaisedValidationError == ~self.exists /\ raised.type = "ValidationError"

C4_BadCustomHookRejected ==
    Done /\ (\E i \in 1..Len(FileItems("Hook Scripts")) :
                \/ FileItems("Hook Scripts")[i].v = <<>>
                \/ Unclosed(FileItems("Hook Scripts")[i].v))
        => RaisedValidationError

C4_Witness ==
    /\ Done
    /\ Len(FileItems("Hook Scripts")) = 2
    /\ FileItems("Hook Scripts")[1].v # <<>> /\ ~Unclosed(FileItems("Hook Scripts")[1].v)
    /\ Unclosed(FileItems("Hook Scripts")[2].v)
    /\ raised.names = {FileItems("Hook Scripts")[2].k}
    /\ raised.detail = "No closing quotation"

\* C5: a file with the options section but no builtin hooks section makes
\* construction raise ValidationError.
C5_OrphanOptionsRejected ==
    Done /\ FileHas("Builtin Hooks Options") /\ ~FileHas("Builtin Hooks")
        => RaisedValidationError

C5_Witness ==
    /\ Done
    /\ DOMAIN file.store = {"Builtin Hooks Options"}
    /\ raised.text = "Builtin hook options specified, but missing builtin hook settings"

\* C6: a key of the builtin hooks section or of the options section that is
\* no name of the registry makes construction raise ValidationError, whether
\* the hook is enabled or disabled.
C6_UnknownBuiltinRejected ==
    Done /\ (\E sec \in {"Builtin Hooks", "Builtin Hooks Options"} :
                \E i \in 1..Len(FileItems(sec)) :
                    FileItems(sec)[i].k \notin DOMAIN BUILTIN_HOOKS)
        => RaisedValidationError

C6_Witness ==
    /\ Done
    /\ FileHas("Builtin Hooks")
    /\ \A i \in 1..Len(FileItems("Builtin Hooks")) :
          FileItems("Builtin Hooks")[i].k \in DOMAIN BUILTIN_HOOKS
    /\ \E i \in 1..Len(FileItems("Builtin Hooks Options")) :
          FileItems("Builtin Hooks Options")[i].k = "zap"
    /\ raised.text = "%s: unknown builtin hook options: %s"
    /\ raised.names = {"zap"}

\* the keys the builtin hooks section enables: listed with a true flag
EnabledInFile ==
    {FileItems("Builtin Hooks")[i].k : i \in
        {j \in 1..Len(FileItems("Builtin Hooks")) :
            Lower(FileItems("Builtin Hooks")[j].v) \in TrueValues}}

\* every flag of the builtin hooks section is a shell-boolean
FlagsDecodable ==
    \A i \in 1..Len(FileItems("Builtin Hooks")) :
        Lower(FileItems("Builtin Hooks")[i].v) \in TrueValues \cup FalseValues

\* C7 as stated: any key of the options section whose value is not valid
\* shell syntax makes construction raise ValidationError, also when its hook
\* is disabled or not listed in the builtin hooks section.
C7_Original ==
    Done /\ (\E i \in 1..Len(FileItems("Builtin Hooks Options")) :
                Unclosed(FileItems("Builtin Hooks Options")[i].v))
        => RaisedValidationError

\* C7 amended: a key of the options section whose value is not valid shell
\* syntax makes construction fail when its hook is enabled in the builtin
\* hooks section: with ValidationError whenever every flag of that section is
\* a shell-boolean, and never with an object constructed.
C7_Amended ==
    Done /\ (\E i \in 1..Len(FileItems("Builtin Hooks Options")) :
                /\ Unclosed(FileItems("Builtin Hooks Options")[i].v)
                /\ FileItems("Builtin Hooks Options")[i].k \in EnabledInFile)
        => /\ ~self.exists
           /\ FlagsDecodable => raised.type = "ValidationError"

C7_Witness ==
    /\ Done
    /\ \E i \in 1..Len(FileItems("Builtin Hooks Options")) :
          /\ Unclosed(FileItems("Builtin Hooks Options")[i].v)
          /\ FileItems("Builtin Hooks Options")[i].k \in EnabledInFile
          /\ raised.names = {FileItems("Builtin Hooks Options")[i].k}
    /\ raised.text = "%s: hook options \"%s\" are invalid: %s"

\* the invariants of the schema as construction enforces them
SchemaViolated ==
    \/ file.kind = "malformed"
    \/ \E sec \in DOMAIN file.store : sec \notin valid_sections
    \/ \E i \in 1..Len(FileItems(CUSTOM_HOOKS_SECTION)) :
          \/ FileItems(CUSTOM_HOOKS_SECTION)[i].v = <<>>
          \/ Unclosed(FileItems(CUSTOM_HOOKS_SECTION)[i].v)
    \/ \E sec \in {BUILTIN_HOOKS_SECTION, BUILTIN_HOOKS_OPTIONS_SECTION} :
          \E i \in 1..Len(FileItems(sec)) :
              FileItems(sec)[i].k \notin DOMAIN BUILTIN_HOOKS
    \/ FileHas(BUILTIN_HOOKS_OPTIONS_SECTION) /\ ~FileHas(BUILTIN_HOOKS_SECTION)
    \/ ~FlagsDecodable
    \/ \E i \in 1..Len(FileItems(BUILTIN_HOOKS_OPTIONS_SECTION)) :
          /\ Unclosed(FileItems(BUILTIN_HOOKS_OPTIONS_SECTION)[i].v)
          /\ FileItems(BUILTIN_HOOKS_OPTIONS_SECTION)[i].k \in EnabledInFile

C9_MessageNamesFileAndCulprit ==
    raised.type = "ValidationError"
        => raised.path = FILENAME /\ (raised.names # {} \/ raised.detail # "")

\* C10: builtin_hooks returns exactly the keys of the builtin hooks section
\* whose flag is a true shell-boolean, each once, in declaration order; a
\* key with a false flag, or any key when the section is absent, is not in
\* it.
C10_EnabledBuiltinsInOrder ==
    ret.call = "builtin_hooks" =>
        LET its == FileItems("Builtin Hooks")
            pos(k) == CHOOSE i \in 1..Len(its) : its[i].k = k
        IN /\ ret.exc = "none"
           /\ Range(ret.val) = EnabledInFile
           /\ \A i, j \in 1..Len(ret.val) : i < j => pos(ret.val[i]) < pos(ret.val[j])
           /\ \A i \in 1..Len(its) :
                 Lower(its[i].v) \in FalseValues => its[i].k \notin Range(ret.val)

C10_Witness ==
    /\ ret.call = "builtin_hooks"
    /\ Len(FileItems("Builtin Hooks")) = 3
    /\ FileItems("Builtin Hooks")[1].v = <<"N", "o">>
    /\ ret.val = <<"foo", "bar">>

\* the option value the file gives a builtin hook, blank when it gives none
FileOption(hook) ==
    LET its == FileItems(BUILTIN_HOOKS_OPTIONS_SECTION)
        idx == {i \in 1..Len(its) : its[i].k = hook}
    IN IF idx = {} THEN <<>> ELSE its[CHOOSE i \in idx : TRUE].v

\* the closures the file declares: one per line of the custom section, then
\* one per line of the builtin section whose flag is a true value
ExpectedCustom ==
    [i \in 1..Len(FileItems(CUSTOM_HOOKS_SECTION)) |->
        [func |-> "check_custom",
         options |-> shlex_split(FileItems(CUSTOM_HOOKS_SECTION)[i].v).val]]

ExpectedBuiltin ==
    LET on == SelectSeq(FileItems(BUILTIN_HOOKS_SECTION),
                        LAMBDA it : Lower(it.v) \in TrueValues)
    IN [i \in 1..Len(on) |->
          [func |-> BUILTIN_HOOKS[on[i].k],
           options |-> shlex_split(FileOption(on[i].k)).val]]

ExpectedHooks == ExpectedCustom \o ExpectedBuiltin

\* C11: every generator of callable_hooks() yields one closure per custom
\* hook in file order, then one per enabled builtin hook in file order, none
\* for a disabled one, and ends there; two generators on the same object,
\* advanced in any interleaving, yield the same sequence.
C11_HooksInDeclarationOrder ==
    \A g \in Generators :
        gen[g].state # "none" =>
            /\ gen[g].state \in {"suspended", "done"}
            /\ gen[g].n <= Len(ExpectedHooks)
            /\ yielded[g] = SubSeq(ExpectedHooks, 1, gen[g].n)
            /\ gen[g].state = "done" => yielded[g] = ExpectedHooks
            /\ \A h \in Generators :
                  gen[g].state = "done" /\ gen[h].state = "done" =>
                      yielded[g] = yielded[h]

\* two generators ran to their end on a file with a custom hook, an enabled
\* builtin hook and a disabled one: each yielded the custom closure, then
\* the enabled hook's closure
C11_Witness ==
    /\ \A g \in Generators : gen[g].state = "done" /\ Len(yielded[g]) = 2
    /\ yielded[1] = yielded[2]
    /\ yielded[1][1].func = "check_custom"
    /\ yielded[1][2].func = "check_bar"
    /\ \E i \in 1..Len(FileItems(BUILTIN_HOOKS_SECTION)) :
          Lower(FileItems(BUILTIN_HOOKS_SECTION)[i].v) \in FalseValues

\* C12: with no declaration file in the project directory, construction
\* raises nothing and builds the object on an empty store, custom_hooks and
\* builtin_hooks are empty, and every generator of callable_hooks() ends
\* without a closure.
C12_MissingFileIsEmptyConfig ==
    file.kind = "missing" =>
        /\ ~Failed
        /\ Constructed => self.config = EmptyStore
        /\ ret.call \in {"custom_hooks", "builtin_hooks"} =>
              ret.exc = "none" /\ ret.val = <<>>
        /\ \A g \in Generators :
              /\ yielded[g] = <<>>
              /\ gen[g].n = 0
              /\ gen[g].state \in {"none", "suspended", "done"}

\* no file: the object was built, a generator ran to its end and the
\* builtin_hooks property was read
C12_Witness ==
    /\ file.kind = "missing"
    /\ Constructed
    /\ gen[1].state = "done"
    /\ ret.call = "builtin_hooks"
    /\ ret.val = <<>>

StoreCalls == {"get", "options", "items"}

\* the section, the key and the default arguments of the last parser call
CallSection == ret.arg[1]
CallOption == ret.arg[2]
CallArgs == ret.arg[3]

\* the lines of the looked-up section that carry the looked-up key
CallLines ==
    {i \in 1..Len(FileItems(CallSection)) : FileItems(CallSection)[i].k = CallOption}

\* what the file stores for the call, when it stores it
Stored ==
    IF ret.call = "get" THEN FileItems(CallSection)[CHOOSE i \in CallLines : TRUE].v
    ELSE IF ret.call = "options" THEN Keys(FileItems(CallSection))
    ELSE FileItems(CallSection)

\* the call looks up something the file does not have
Absent ==
    \/ ~FileHas(CallSection)
    \/ ret.call = "get" /\ CallLines = {}

\* C13: with one default, get returns the default exactly when the section
\* or the key is absent and the stored value otherwise; with none, it
\* returns the stored value when present and raises a not-found error when
\* absent; options and items do the same for an absent section.
C13_DefaultIffAbsent ==
    ret.call \in StoreCalls /\ Len(CallArgs) <= 1 =>
        /\ ~Absent => ret.exc = "none" /\ ret.val = Stored
        /\ Absent /\ Len(CallArgs) = 1 => ret.exc = "none" /\ ret.val = CallArgs[1]
        /\ Absent /\ Len(CallArgs) = 0 =>
              ret.exc = (IF FileHas(CallSection) THEN "NoOptionError"
                         ELSE "NoSectionError")
        /\ Len(CallArgs) = 1 => (ret.val = CallArgs[1] <=> Absent)

\* get with a default on a section that is present without the key
C13_Witness ==
    /\ ret.call = "get"
    /\ Len(CallArgs) = 1
    /\ FileHas(CallSection)
    /\ FileItems(CallSection) # <<>>
    /\ CallLines = {}
    /\ ret.val = DefaultValue

\* C14: get, options and items called with two default arguments raise
\* TypeError and return nothing, whatever the file stores; with none or one
\* they never raise TypeError.
C14_TwoDefaultsRaiseTypeError ==
    ret.call \in StoreCalls =>
        /\ Len(CallArgs) >= 2 => ret.exc = "TypeError" /\ ret.val = <<>>
        /\ Len(CallArgs) <= 1 => ret.exc # "TypeError"

\* get with two defaults for a key the file stores
C14_Witness ==
    /\ ret.call = "get"
    /\ Len(CallArgs) = 2
    /\ ~Absent
    /\ ret.exc = "TypeError"

\* C15: the error text of a HookCommandResult is the process's stderr when
\* that is non-empty, and its stdout otherwise, also when both are empty.
C15_ErrorPrefersStderr ==
    IsCommandResult =>
        LET result == ret.arg[1]
        IN /\ result.stderr # "" => hres.error = result.stderr
           /\ result.stderr = "" => hres.error = result.stdout
           /\ hres.result = result

\* both streams captured and different: the error text is stderr
C15_Witness ==
    /\ IsCommandResult
    /\ ret.arg[1].stdout = "out"
    /\ ret.arg[1].stderr = "err"
    /\ hres.error = "err"

\* C16: a plain HookResult is truthy exactly when the error string it was
\* built with is non-empty, is never a warning, and has the fixup command it
\* was built with, none when none was supplied.
C16_PlainResult ==
    hres.cls = "HookResult" =>
        /\ hres.error = ret.arg[1]
        /\ HookResult_bool(hres) <=> ret.arg[1] # ""
        /\ ~HookResult_is_warning(hres)
        /\ hres.fixup_cmd = ret.arg[2]
        /\ ret.arg[2] = <<>> => hres.fixup_cmd = <<>>

\* a result built with an empty error string and a fixup command
C16_Witness ==
    /\ hres.cls = "HookResult"
    /\ ret.arg[1] = ""
    /\ ret.arg[2] # <<>>
    /\ ~HookResult_bool(hres)

Accessors == {"custom_hooks", "custom_hook", "builtin_hooks", "builtin_hook_option"}

\* what an accessor answers on the store the file was read into
AnswerOnFile(call, arg) ==
    IF call = "custom_hooks" THEN Ok(custom_hooks(file.store))
    ELSE IF call = "custom_hook" THEN custom_hook(file.store, arg[1])
    ELSE IF call = "builtin_hooks" THEN builtin_hooks(file.store)
    ELSE builtin_hook_option(file.store, arg[1])

FileCommand(hook) ==
    LET its == FileItems(CUSTOM_HOOKS_SECTION)
        idx == {i \in 1..Len(its) : its[i].k = hook}
    IN IF idx = {} THEN <<>> ELSE its[CHOOSE i \in idx : TRUE].v

\* the value the last custom_hook or builtin_hook_option call looks up
Looked ==
    IF ret.call = "custom_hook" THEN FileCommand(ret.arg[1]) ELSE FileOption(ret.arg[1])

\* the argument vectors of the values with valid shell syntax
Tokens(v) ==
    IF v = <<>> THEN <<>>
    ELSE IF v = <<"l">> THEN << <<"l">> >>
    ELSE << <<"e">>, <<"a", " ", "b">>, <<"c">> >>

\* C18 as stated: builtin_hook_option(name) and custom_hook(name) always
\* return: the tokenized stored value, or the empty vector when the section
\* or the key is absent.
C18_Original ==
    Constructed /\ ret.call \in {"custom_hook", "builtin_hook_option"} =>
        ret.exc = "none" /\ ret.val = Tokens(Looked)

\* C18 amended: builtin_hook_option(name) and custom_hook(name) return the
\* tokenized stored value when it is valid shell syntax and the empty vector
\* when the section or the key is absent; builtin_hook_option raises
\* ValueError for a stored value with an unclosed quote, which the file can
\* hold for a hook that is not enabled; custom_hook never raises.
C18_Amended ==
    Constructed /\ ret.call \in {"custom_hook", "builtin_hook_option"} =>
        /\ ~Unclosed(Looked) => ret.exc = "none" /\ ret.val = Tokens(Looked)
        /\ Unclosed(Looked) => ret.exc = "ValueError" /\ ret.val = <<>>
        /\ ret.call = "custom_hook" => ret.exc = "none"
        /\ ret.call = "custom_hook" /\ FileCommand(ret.arg[1]) = <<>> => ret.val = <<>>

\* the option of a hook that is not enabled has an unclosed quote, and
\* reading it raised
C18_Witness ==
    /\ Constructed
    /\ ret.call = "builtin_hook_option"
    /\ Unclosed(FileOption(ret.arg[1]))
    /\ ret.arg[1] \notin EnabledInFile
    /\ ret.exc = "ValueError"

\* an inspection of the subset that the superset holds with the same
\* settings: equal tag, attributes and children
InSuperset(e, superset) ==
    \E i \in 1..Len(superset.tools) : are_equal(e, superset.tools[i])

\* every inspection enabled in the subset is in the superset, same settings
Synced(subset, superset) ==
    \A i \in 1..Len(subset.tools) :
        subset.tools[i].attrib.enabled = "true" => InSuperset(subset.tools[i], superset)

\* C19: when a profile is among the affected files and both profiles parse
\* with schema version 1.0, main returns 0 exactly when every inspection
\* enabled in the subset is in the superset with the same settings, and 1
\* otherwise; when no profile is affected it returns 0.
C19_SyncedIffZero ==
    run.tool = "sync-inspection-profiles" =>
        LET affected == run.args[1]
            subset == run.args[2]
            superset == run.args[3]
        IN /\ affected = {} => run.status = <<0>>
           /\ /\ affected # {}
              /\ subset.parsed /\ superset.parsed
              /\ subset.version = "1.0" /\ superset.version = "1.0"
              => run.status = (IF Synced(subset, superset) THEN <<0>> ELSE <<1>>)

\* a path is the allowed path, or lies inside it as a folder
IsAllowed(f, allowed) ==
    \E i \in 1..Len(allowed) :
        \/ f = allowed[i]
        \/ LET folder == IF allowed[i][Len(allowed[i])] = "/" THEN allowed[i]
                         ELSE allowed[i] \o <<"/">>
           IN Len(f) > Len(folder) /\ SubSeq(f, 1, Len(folder)) = folder

\* C20: main returns 0 exactly when every changed file is an allowed file or
\* lies inside an allowed folder; otherwise it returns 1 and reports the
\* changed files that are not allowed, in the order given.
C20_OnlyAllowedFiles ==
    run.tool = "control-file-changes" =>
        LET changed == run.args[1]
            allowed == run.args[2]
            disallowed == SelectSeq(changed, LAMBDA f : ~IsAllowed(f, allowed))
        IN /\ run.status = (IF disallowed = <<>> THEN <<0>> ELSE <<1>>)
           /\ run.out = disallowed

\* the checks a file violates, numbered in the order of the claim
Violates(check) ==
    IF check = 1
    THEN \E sec \in DOMAIN file.store :
            sec \notin {"Hook Scripts", "Builtin Hooks", "Builtin Hooks Options"}
    ELSE IF check = 2
    THEN \E i \in 1..Len(FileItems("Hook Scripts")) :
            FileItems("Hook Scripts")[i].v = <<>>
    ELSE IF check = 3
    THEN IF FileHas("Builtin Hooks")
         THEN \E i \in 1..Len(FileItems("Builtin Hooks")) :
                 FileItems("Builtin Hooks")[i].k \notin DOMAIN BUILTIN_HOOKS
         ELSE FileHas("Builtin Hooks Options")
    ELSE IF check = 4
    THEN \E i \in 1..Len(FileItems("Builtin Hooks Options")) :
            FileItems("Builtin Hooks Options")[i].k \notin DOMAIN BUILTIN_HOOKS
    ELSE IF check = 5
    THEN \E i \in 1..Len(FileItems("Hook Scripts")) :
            Unclosed(FileItems("Hook Scripts")[i].v)
    ELSE \E hook \in EnabledInFile : Unclosed(FileOption(hook))

Checks == {1, 2, 3, 4, 5, 6}

\* the check whose raise statement produced the exception: by its message;
\* the decoding error of an enable flag leaves from inside the sixth check
RaisedBy ==
    IF raised.text = "%s: unknown sections: %s" THEN 1
    ELSE IF raised.text = "%s: custom hook \"%s\" cannot be blank" THEN 2
    ELSE IF raised.text \in {"%s: unknown builtin hooks: %s",
            "Builtin hook options specified, but missing builtin hook settings"}
    THEN 3
    ELSE IF raised.text = "%s: unknown builtin hook options: %s" THEN 4
    ELSE IF raised.text = "%s: hook \"%s\" command line is invalid: %s" THEN 5
    ELSE 6

\* C23: when the file read violates one or more of the six checks,
\* construction raises from the first of them in the order unknown section,
\* blank custom hook, unknown builtin hook or orphaned options, unknown
\* option name, invalid custom command, invalid options of an enabled hook;
\* the failures of later checks do not show.
C23_FirstFailingCheckRaises ==
    Done /\ file.kind = "parsed" /\ (\E c \in Checks : Violates(c)) =>
        /\ Failed
        /\ Violates(RaisedBy)
        /\ \A c \in Checks : c < RaisedBy => ~Violates(c)

\* a file with an unknown builtin hook and an unknown option name: the
\* builtin hooks error is the one raised
C23_Witness ==
    /\ Failed
    /\ Violates(3)
    /\ Violates(4)
    /\ FileHas("Builtin Hooks")
    /\ raised.text = "%s: unknown builtin hooks: %s"

\* C24: on every object whose construction succeeded, each step of every
\* callable_hooks() generator yields a closure or ends the sequence, never
\* an exception: the builtin names it looks up are registry keys and the
\* strings it tokenizes are valid shell syntax.
C24_HooksNeverRaise ==
    Constructed =>
        /\ \A g \in Generators : gen[g].state \notin {"KeyError", "ValueError"}
        /\ \A n \in 0..MaxOptions : resume(self.config, n).exc \in {"none", "StopIteration"}
        /\ \A i \in 1..Len(FileItems(CUSTOM_HOOKS_SECTION)) :
              ~Unclosed(FileItems(CUSTOM_HOOKS_SECTION)[i].v)
        /\ \A hook \in EnabledInFile :
              hook \in DOMAIN BUILTIN_HOOKS /\ ~Unclosed(FileOption(hook))

\* a generator ran to its end on a file that holds an option with an
\* unclosed quote for a hook that is not enabled, next to an enabled hook
C24_Witness ==
    /\ Constructed
    /\ gen[1].state = "done"
    /\ Len(yielded[1]) = 1
    /\ yielded[1][1].func = "check_foo"
    /\ \E i \in 1..Len(FileItems(BUILTIN_HOOKS_OPTIONS_SECTION)) :
          /\ Unclosed(FileItems(BUILTIN_HOOKS_OPTIONS_SECTION)[i].v)
          /\ FileItems(BUILTIN_HOOKS_OPTIONS_SECTION)[i].k \notin EnabledInFile

IsPylint == run.tool = "pylint"

\* directory d is a proper ancestor of the absolute path p, by components
IsAncestor(d, p) == Len(d) < Len(p) /\ SubSeq(p, 1, Len(d)) = d

\* the directories whose pylintrc can apply to a file: the top directory,
\* and the directories below it that hold a pylintrc, when they are
\* ancestors of the file
RcAncestors(f) ==
    {d \in {CurDir} \cup {r \in run.args[2] : IsAncestor(CurDir, r)} :
        IsAncestor(d, abspath(f))}

\* the deepest of them
DeepestRc(f) ==
    CHOOSE d \in RcAncestors(f) : \A other \in RcAncestors(f) : Len(other) <= Len(d)

\* C21: in the map returned by map_pyfiles_to_pylintrc every input file is
\* in exactly one set, the sets hold nothing but input files, and the key
\* of a file's set is the deepest directory, among the top directory and
\* the pylintrc directories below it, that is an ancestor of the file; the
\* top directory is a key from the start.
C21_FilesMappedToDeepestRc ==
    IsPylint =>
        /\ DirKey(CurDir) \in DOMAIN run.out.map
        /\ run.out.pc = "done" =>
              LET files == run.args[1]
                  map == run.out.map
              IN /\ \A i \in 1..Len(files) :
                       /\ Cardinality({k \in DOMAIN map : files[i] \in map[k]}) = 1
                       /\ RcAncestors(files[i]) # {}
                       /\ files[i] \in map[DirKey(DeepestRc(files[i]))]
                 /\ UNION {map[k] : k \in DOMAIN map} = Range(files)
                 /\ \A k1, k2 \in DOMAIN map : k1 # k2 => map[k1] \cap map[k2] = {}

\* a/b/y and t were mapped with a pylintrc in /r/a and in /r/a/b: the
\* first went to /r/a/b/, the second to the top directory
C21_Witness ==
    /\ IsPylint
    /\ run.out.pc = "done"
    /\ run.args[1] = << << <<"a">>, <<"b">>, <<"y">> >>, << <<"t">> >> >>
    /\ {<< <<"r">>, <<"a">> >>, << <<"r">>, <<"a">>, <<"b">> >>} \subseteq run.args[2]
    /\ run.out.map[<<"/", "r", "/", "a", "/", "b", "/">>] =
          {<< <<"a">>, <<"b">>, <<"y">> >>}
    /\ run.out.map[<<"/", "r", "/">>] = {<< <<"t">> >>}

\* a find_parent_dirs_with_pylintrc call is inside its loop
Walking == IsPylint /\ run.out.pc = "walk"

\* the call under way, or the last one, has returned
Returned == IsPylint /\ run.out.pc = "dirs" /\ run.out.key # <<>>

\* directory d is the directory p or one of its ancestors
IsAtOrAbove(d, p) == d = p \/ IsAncestor(d, p)

\* the walk stops at directory d: it is the current directory, a key of the
\* map the call was given, or it holds a pylintrc
Stops(d) ==
    \/ d = CurDir
    \/ DirKey(d) \in DOMAIN run.out.before
    \/ d \in run.args[2]

\* the directories from the leaf up to, but without, the walk's key
Passed ==
    {SubSeq(abspath(run.out.leaf), 1, n) :
        n \in (Len(run.out.key) + 1)..Len(abspath(run.out.leaf))}

IsLicense == run.tool = "check_license"

\* the lines of a text that end with a newline, without the newline
TextLines(text) ==
    LET ends == {i \in 1..Len(text) : text[i] = NL}
    IN [k \in 1..Cardinality(ends) |->
          LET e == CHOOSE p \in ends : Cardinality({q \in ends : q <= p}) = k
              b == Cardinality({q \in ends : q < e})
              from == IF b = 0 THEN 1
                      ELSE 1 + CHOOSE p \in ends : Cardinality({q \in ends : q <= p}) = b
          IN SubSeq(text, from, e - 1)]

\* a line without the spaces and comment characters it starts with
Uncommented(line) ==
    LET rest == {i \in 1..Len(line) : line[i] \notin CommentChars}
    IN IF rest = {} THEN <<>> ELSE SubSeq(line, Min(rest), Len(line))

\* the copyright line of the header with a year 20xx
IsCopyrightLine(line) ==
    /\ Len(line) = Len(HeaderBodies(<<"2", "0", "2", "4">>, ".")[1])
    /\ line[1] = "Copyright (C) "
    /\ line[2] = "2" /\ line[3] = "0"
    /\ line[4] \in Digits /\ line[5] \in Digits
    /\ line[Len(line)] = " The Android Open Source Project"

\* the header lines after the copyright line
AfterCopyright == Tail(HeaderBodies(<<>>, "."))

\* the text holds the header lines one after the other, each after spaces
\* and comment characters only, with at most one blank line after the
\* copyright line
HasHeader(text) ==
    LET lines == [k \in 1..Len(TextLines(text)) |-> Uncommented(TextLines(text)[k])]
    IN \E at \in 1..Len(lines), blank \in {0, 1} :
          /\ IsCopyrightLine(lines[at])
          /\ at + blank + Len(AfterCopyright) <= Len(lines)
          /\ blank = 1 => lines[at + 1] = <<>>
          /\ \A k \in 1..Len(AfterCopyright) : lines[at + blank + k] = AfterCopyright[k]

\* the text has no copyright line with a year 20xx
LacksYear(text) ==
    \A k \in 1..Len(TextLines(text)) : ~IsCopyrightLine(Uncommented(TextLines(text)[k]))

\* one of the worded header lines is on no line of the text
LineMissing(text) ==
    \E h \in 1..Len(AfterCopyright) :
        /\ AfterCopyright[h] # <<>>
        /\ \A k \in 1..Len(TextLines(text)) :
              Uncommented(TextLines(text)[k]) # AfterCopyright[h]

\* C22: check_license is true for every text that holds the header lines
\* one after the other, each after any run of spaces and comment
\* characters, with at most one blank line after the copyright line; it is
\* false for every text whose copyright line has no year 20xx or that lacks
\* one of the header lines.
C22_HeaderAcceptedIffComplete ==
    IsLicense =>
        /\ HasHeader(run.args[1]) => run.out = TRUE
        /\ LacksYear(run.args[1]) \/ LineMissing(run.args[1]) => run.out = FALSE

====
